---- MODULE Spec2Model ----
(***************************************************************************)
(* A model of the CSV -> vCard converter (scripts/vcf_maker.py).           *)
(*                                                                         *)
(* Text is a sequence of one-character strings.  Python's None and a       *)
(* raised exception are one-element sequences holding a marker that is no  *)
(* character, so that every value compares with every other.               *)
(***************************************************************************)
EXTENDS Integers, Sequences, FiniteSets, TLC

VARIABLES
    fmtPc, fmtIn, fmtOut,   \* a formatting function applied to one input
    env,        \* the file system: input exists, output can be opened for writing
    src,        \* the CSV file: its header names and its data lines
    cfg,        \* the arguments of write_vcards_stream
    pc,         \* where write_vcards_stream is
    pos,        \* the data line the main pass's reader is at
    i,          \* the loop's 1-based row index
    total,      \* count_csv_rows' result
    written,    \* records written so far
    loc,        \* the loop body's locals: name and phones of the current row
    out,        \* the output file: None when absent, else the chunks written to it
    stop,       \* stop_event.is_set()
    handles,    \* the open file handles
    err,        \* the exception the call raised, None when none
    result,     \* the value the call returned, None before
    events,     \* history: what the pass did, in order
    stopAt,     \* history: where the pass was when the stop event was set
    chPc, chIn, chOut,  \* choose_field applied to one input
    chAsked,    \* how many lines the prompt has read
    chTyped,    \* the line the prompt read last
    cli,        \* the command-line program: where main is, its arguments and locals
    gui         \* the window: its widgets, its worker thread and its scheduled callbacks

fmtVars == <<fmtPc, fmtIn, fmtOut>>

streamVars == <<env, src, cfg, pc, pos, i, total, written, loc, out, stop, handles,
                err, result, events, stopAt>>

chVars == <<chPc, chIn, chOut, chAsked, chTyped>>

\* what a streaming pass leaves alone
restVars == <<fmtVars, chVars, cli, gui>>

vars == <<fmtVars, streamVars, chVars, cli, gui>>

----------------------------------------------------------------------------
(* Characters and markers *)

LF == "\n"

CR == "\r"

TAB == "\t"

BS == "\\"

None == <<"None">>

IndexError == <<"IndexError">>

Markers == {None, IndexError}

IsText(v) == v \notin Markers

\* str.strip() / str.split() whitespace (the ASCII part the inputs use)
Whitespace == {" ", TAB, LF, CR}

LowerLetters == <<"a","b","c","d","e","f","g","h","i","j","k","l","m","n","o","p","q","r","s","t","u","v","w","x","y","z">>

UpperLetters == <<"A","B","C","D","E","F","G","H","I","J","K","L","M","N","O","P","Q","R","S","T","U","V","W","X","Y","Z">>

UpperChar(c) == IF \E k \in 1..Len(LowerLetters) : LowerLetters[k] = c
                THEN UpperLetters[CHOOSE k \in 1..Len(LowerLetters) : LowerLetters[k] = c]
                ELSE c

LowerChar(c) == IF \E k \in 1..Len(UpperLetters) : UpperLetters[k] = c
                THEN LowerLetters[CHOOSE k \in 1..Len(UpperLetters) : UpperLetters[k] = c]
                ELSE c

upper(s) == [k \in 1..Len(s) |-> UpperChar(s[k])]

lower(s) == [k \in 1..Len(s) |-> LowerChar(s[k])]

RECURSIVE lstrip(_)
lstrip(s) == IF s # <<>> /\ Head(s) \in Whitespace THEN lstrip(Tail(s)) ELSE s

RECURSIVE rstrip(_)
rstrip(s) == IF s # <<>> /\ s[Len(s)] \in Whitespace
             THEN rstrip(SubSeq(s, 1, Len(s) - 1)) ELSE s

strip(s) == rstrip(lstrip(s))

\* str.replace(old, new) for a one-character old
RECURSIVE replace(_, _, _)
replace(s, old, new) ==
    IF s = <<>> THEN <<>>
    ELSE (IF Head(s) = old THEN new ELSE <<Head(s)>>) \o replace(Tail(s), old, new)

\* sep.join(parts)
RECURSIVE join(_, _)
join(parts, sep) ==
    IF parts = <<>> THEN <<>>
    ELSE IF Len(parts) = 1 THEN parts[1]
    ELSE parts[1] \o sep \o join(Tail(parts), sep)

RECURSIVE TokenLen(_)
TokenLen(s) == IF s = <<>> \/ Head(s) \in Whitespace THEN 0 ELSE 1 + TokenLen(Tail(s))

\* str.split() with no argument: the whitespace-separated tokens
RECURSIVE split(_)
split(s) ==
    LET t == lstrip(s) IN
    IF t = <<>> THEN <<>>
    ELSE LET k == TokenLen(t)
         IN <<SubSeq(t, 1, k)>> \o split(SubSeq(t, k + 1, Len(t)))

----------------------------------------------------------------------------
(* Value sanitizers, name decomposition and the record formatter *)

escape_vcard_value_backslash_last(value) ==
    IF value = None THEN <<>>
    ELSE LET v1 == replace(replace(value, CR, <<" ">>), LF, <<" ">>)
             v2 == replace(replace(v1, ",", <<BS, ",">>), ";", <<BS, ";">>)
             v3 == replace(v2, BS, <<BS, BS>>)
         IN strip(v3)

escape_vcard_value(value) ==
    IF value = None THEN <<>>
    ELSE LET v1 == replace(value, BS, <<BS, BS>>)
             v2 == replace(replace(v1, CR, <<" ">>), LF, <<" ">>)
             v3 == replace(replace(v2, ",", <<BS, ",">>), ";", <<BS, ";">>)
         IN strip(v3)

PhoneChars == {"0","1","2","3","4","5","6","7","8","9","+"}

IsPhoneChar(c) == c \in PhoneChars

sanitize_phone_digits_only(phone) ==
    IF phone = None THEN <<>>
    ELSE SelectSeq(strip(phone), LAMBDA c : c \in PhoneChars \ {"+"})

sanitize_phone(phone) ==
    IF phone = None THEN <<>>
    ELSE SelectSeq(strip(phone), IsPhoneChar)

format_n_field_given_first(full_name) ==
    IF full_name = None \/ full_name = <<>> THEN <<";", ";", ";", ";", ";">>
    ELSE LET parts == split(full_name) IN
         IF parts = <<>> THEN IndexError
         ELSE LET given == parts[1]
                  family == IF Len(parts) = 1 THEN <<>> ELSE parts[Len(parts)]
                  additional == IF Len(parts) > 2
                                THEN join(SubSeq(parts, 2, Len(parts) - 1), <<" ">>)
                                ELSE <<>>
              IN given \o <<";">> \o family \o <<";">> \o additional \o <<";", ";">>

format_n_field(full_name) ==
    IF full_name = None \/ full_name = <<>> THEN <<";", ";", ";", ";", ";">>
    ELSE LET parts == split(full_name) IN
         IF parts = <<>> THEN IndexError     \* parts[0] of an empty list
         ELSE LET given == parts[1]
                  family == IF Len(parts) = 1 THEN <<>> ELSE parts[Len(parts)]
                  additional == IF Len(parts) > 2
                                THEN join(SubSeq(parts, 2, Len(parts) - 1), <<" ">>)
                                ELSE <<>>
              IN family \o <<";">> \o given \o <<";">> \o additional \o <<";", ";">>

BEGIN_VCARD == <<"B","E","G","I","N",":","V","C","A","R","D">>

VERSION_3_0 == <<"V","E","R","S","I","O","N",":","3",".","0">>

END_VCARD == <<"E","N","D",":","V","C","A","R","D">>

FN_ == <<"F","N",":">>

N_ == <<"N",":">>

TEL_TYPE == <<"T","E","L",";","T","Y","P","E","=">>

CELL == <<"C","E","L","L">>

\* the loop body of format_vcard: the TEL line of one phone entry, or none
TelLine(p) ==
    LET num == sanitize_phone(p.number)
        label == upper(IF p.label = None \/ p.label = <<>> THEN CELL ELSE p.label)
    IN IF num = <<>> THEN <<>> ELSE << TEL_TYPE \o label \o <<":">> \o num >>

RECURSIVE TelLines(_)
TelLines(phones) ==
    IF phones = <<>> THEN <<>> ELSE TelLine(Head(phones)) \o TelLines(Tail(phones))

format_vcard(fn, phones) ==
    LET fn_escaped == escape_vcard_value(fn)
        n_raw == format_n_field(fn)
    IN IF n_raw = IndexError THEN IndexError
       ELSE LET n_field == escape_vcard_value(n_raw)
                lines == << BEGIN_VCARD, VERSION_3_0, FN_ \o fn_escaped, N_ \o n_field >>
                         \o TelLines(phones)
                         \o << END_VCARD \o <<LF>> >>
            IN join(lines, <<LF>>)

----------------------------------------------------------------------------
(* The streaming converter's state when no pass is running *)

NAME == <<"n","a","m","e">>

PHONE == <<"p","h","o","n","e">>

ALT == <<"a","l","t">>

NoCfg ==
    [name_field |-> NAME, phone_fields |-> <<>>, phone_labels |-> None,
     prefix |-> <<>>, postfix |-> <<>>, progress |-> FALSE, stop_event |-> FALSE]

NoLoc == [name |-> <<>>, phones |-> <<>>]

NoStop == [pc |-> "never", i |-> 0]

StreamIdle ==
    /\ env = [exists |-> TRUE, writable |-> TRUE]
    /\ src = [headers |-> <<>>, lines |-> <<>>]
    /\ cfg = NoCfg
    /\ pc = "idle"
    /\ pos = 0 /\ i = 0 /\ total = 0 /\ written = 0
    /\ loc = NoLoc
    /\ out = None
    /\ stop = FALSE
    /\ handles = {}
    /\ err = None /\ result = None
    /\ events = <<>>
    /\ stopAt = NoStop

KIND_NAME == <<"n","a","m","e">>

KIND_PHONE == <<"p","h","o","n","e">>

NoChoice == [headers |-> <<>>, desired |-> None, field_type |-> KIND_NAME, isatty |-> FALSE]

NoArgs ==
    [name_field |-> NAME, phone_field |-> PHONE, phone_fields |-> None,
     phone_labels |-> None, prefix |-> <<>>, postfix |-> <<>>]

NoCli ==
    [pc |-> "idle", args |-> NoArgs, isatty |-> FALSE, headers |-> <<>>,
     name_field |-> None, code |-> 0, printed |-> <<>>]

ChIdle ==
    /\ chPc = "idle" /\ chIn = NoChoice /\ chOut = None /\ chAsked = 0 /\ chTyped = None

\* the window as build_gui leaves it: Run, Cancel and the log disabled, no
\* stop event (0; the events on_run creates are 1 and 2), no worker thread,
\* nothing scheduled
NoGui ==
    [wpc |-> "none", wpc2 |-> "none", stop2 |-> FALSE,
     run_button |-> "disabled", cancel_button |-> "disabled",
     log_state |-> "disabled", log |-> <<>>, progressbar |-> 0,
     stop_event |-> 0, after |-> <<>>, dialogs |-> {}, touched |-> {}]

----------------------------------------------------------------------------
(* The formatter applied to bounded inputs *)

MaxPhones == 2

FmtNames ==
    { <<>>, <<"A","l">>, <<" ">>, <<"J","o"," ","S","m">>,
      <<"a",";","b"," "," ","C",","," ","d",BS>> }

FmtNumbers == { None, <<"n","/","a">>, <<"+","1"," ","(","5",")">>, <<" ","7","+"," ">> }

InjectedLabel == <<"x", LF>> \o END_VCARD \o <<LF, "y">>

FmtLabels == { None, <<>>, <<"h","o","m","e">>, InjectedLabel }

FmtEntries == [number : FmtNumbers, label : FmtLabels]

SeqsUpTo(S, n) == UNION { [1..k -> S] : k \in 0..n }

FmtInit ==
    /\ fmtPc = "call"
    /\ fmtIn \in [fn : FmtNames, phones : SeqsUpTo(FmtEntries, MaxPhones)]
    /\ fmtOut = None
    /\ StreamIdle
    /\ ChIdle
    /\ cli = NoCli
    /\ gui = NoGui

FormatVcard ==
    /\ fmtPc = "call"
    /\ fmtOut' = format_vcard(fmtIn.fn, fmtIn.phones)
    /\ fmtPc' = "returned"
    /\ UNCHANGED <<fmtIn, streamVars, chVars, cli, gui>>

FmtNext == FormatVcard

SpecFormat == FmtInit /\ [][FmtNext]_vars

----------------------------------------------------------------------------
(* write_vcards_stream: one streaming pass *)

FileNotFoundError == <<"FileNotFoundError">>

OSError == <<"OSError">>

ReadError == <<"ReadError">>

CallbackError == <<"CallbackError">>

\* csv.DictReader's row.get(key): None for a column the headers lack and for
\* a cell a short row lacks
RowGet(row, key) == IF key \in DOMAIN row.cells THEN row.cells[key] ELSE None

\* (value or "").strip()
OrEmptyStrip(v) == IF v = None THEN <<>> ELSE strip(v)

\* csv.DictReader skips the lines csv.reader reads as []
RECURSIVE NextDataLine(_, _)
NextDataLine(lines, p) ==
    IF p > Len(lines) THEN 0
    ELSE IF lines[p].blank THEN NextDataLine(lines, p + 1)
    ELSE p

\* count_csv_rows: every line after the header, as csv.reader counts them
count_csv_rows(source) == Len(source.lines)

\* phone_labels or ["CELL"] * len(phone_fields)
EffectiveLabels(c) ==
    IF c.phone_labels = None \/ c.phone_labels = <<>>
    THEN [k \in 1..Len(c.phone_fields) |-> CELL]
    ELSE c.phone_labels

RowPhones_LabelByEntry(row, fields, labels, idx) ==
    LET nums == [k \in 1..Len(fields) |-> OrEmptyStrip(RowGet(row, fields[k]))]
        keptIdx == SelectSeq([k \in 1..Len(fields) |-> k],
                             LAMBDA k : k >= idx /\ nums[k] # <<>>)
    IN [n \in 1..Len(keptIdx) |->
           [number |-> nums[keptIdx[n]],
            label |-> IF n <= Len(labels) THEN labels[n] ELSE CELL]]

\* the inner loop over phone_fields: the row's phone entries
RECURSIVE RowPhones(_, _, _, _)
RowPhones(row, fields, labels, idx) ==
    IF idx > Len(fields) THEN <<>>
    ELSE LET num == OrEmptyStrip(RowGet(row, fields[idx]))
             label == IF idx <= Len(labels) THEN labels[idx] ELSE CELL
         IN (IF num # <<>> THEN <<[number |-> num, label |-> label]>> ELSE <<>>)
            \o RowPhones(row, fields, labels, idx + 1)

FullName_PostfixFirst(c, name) ==
    LET parts == (IF c.prefix # <<>> THEN <<strip(c.prefix)>> ELSE <<>>)
                 \o (IF c.postfix # <<>> THEN <<strip(c.postfix)>> ELSE <<>>)
                 \o (IF name # <<>> THEN <<name>> ELSE <<>>)
    IN strip(join(parts, <<" ">>))

\* the full name: prefix, name and postfix joined by single spaces, trimmed
FullName(c, name) ==
    LET parts == (IF c.prefix # <<>> THEN <<strip(c.prefix)>> ELSE <<>>)
                 \o (IF name # <<>> THEN <<name>> ELSE <<>>)
                 \o (IF c.postfix # <<>> THEN <<strip(c.postfix)>> ELSE <<>>)
    IN strip(join(parts, <<" ">>))

\* history: what happened, at which row index, with which total and count
Event(kind, w) == [ev |-> kind, i |-> i, total |-> total, written |-> w]

Raise_LeavesOpen(e) ==
    /\ pc' = "raised"
    /\ err' = e
    /\ UNCHANGED handles

\* an exception leaves the with block it is raised in: the handles the block
\* holds are closed on the way out
Raise(e) ==
    /\ pc' = "raised"
    /\ err' = e
    /\ handles' = {}

CountOpen_OutputFirst ==
    /\ pc = "count"
    /\ IF env.exists
       THEN /\ handles' = {"f"}
            /\ pc' = "counting"
            /\ UNCHANGED <<err, out, events>>
       ELSE /\ out' = <<>>
            /\ events' = Append(events, Event("open", written))
            /\ Raise(FileNotFoundError)
    /\ UNCHANGED <<restVars, env, src, cfg, pos, i, total, written, loc, stop,
                   result, stopAt>>

\* count_csv_rows opens the input
CountOpen ==
    /\ pc = "count"
    /\ IF env.exists
       THEN /\ handles' = {"f"}
            /\ pc' = "counting"
            /\ UNCHANGED err
       ELSE Raise(FileNotFoundError)
    /\ UNCHANGED <<restVars, env, src, cfg, pos, i, total, written, loc, out, stop,
                   result, events, stopAt>>

\* count_csv_rows reads to the end and leaves its with block
CountRows ==
    /\ pc = "counting"
    /\ total' = count_csv_rows(src)
    /\ written' = 0
    /\ handles' = handles \ {"f"}
    /\ pc' = "open"
    /\ UNCHANGED <<restVars, env, src, cfg, pos, i, loc, out, stop, err, result, events,
                   stopAt>>

CountFails ==
    /\ pc = "counting"
    /\ Raise(ReadError)
    /\ UNCHANGED <<restVars, env, src, cfg, pos, i, total, written, loc, out, stop,
                   result, events, stopAt>>

\* the first item of the with statement: the main pass's input handle
OpenInput ==
    /\ pc = "open"
    /\ handles' = handles \cup {"f_in"}
    /\ pc' = "open_out"
    /\ UNCHANGED <<restVars, env, src, cfg, pos, i, total, written, loc, out, stop, err,
                   result, events, stopAt>>

\* the second item: the output, created or truncated
OpenFiles ==
    /\ pc = "open_out"
    /\ IF env.writable
       THEN /\ handles' = handles \cup {"vcf"}
            /\ out' = <<>>
            /\ pc' = "next"
            /\ events' = Append(events, Event("open", written))
            /\ UNCHANGED err
       ELSE /\ Raise(OSError)
            /\ UNCHANGED <<out, events>>
    /\ UNCHANGED <<restVars, env, src, cfg, pos, i, total, written, loc, stop, result, stopAt>>

NextRow ==
    /\ pc = "next"
    /\ LET p == NextDataLine(src.lines, pos + 1) IN
       IF p = 0
       THEN /\ pc' = "exit"
            /\ UNCHANGED <<pos, i>>
       ELSE /\ pos' = p
            /\ i' = i + 1
            /\ pc' = "check"
    /\ UNCHANGED <<restVars, env, src, cfg, total, written, loc, out, stop, handles,
                   err, result, events, stopAt>>

ReadFails ==
    /\ pc = "next"
    /\ Raise(ReadError)
    /\ UNCHANGED <<restVars, env, src, cfg, pos, i, total, written, loc, out, stop,
                   result, events, stopAt>>

CheckStop_Ignored ==
    /\ pc = "check"
    /\ pc' = "row"
    /\ UNCHANGED <<restVars, env, src, cfg, pos, i, total, written, loc, out, stop,
                   handles, err, result, events, stopAt>>

CheckStop ==
    /\ pc = "check"
    /\ IF cfg.stop_event /\ stop
       THEN /\ pc' = "exit"
            /\ events' = Append(events, Event("break", written))
       ELSE /\ pc' = "row"
            /\ UNCHANGED events
    /\ UNCHANGED <<restVars, env, src, cfg, pos, i, total, written, loc, out, stop,
                   handles, err, result, stopAt>>

BuildRow_SkipSilently ==
    /\ pc = "row"
    /\ LET row == src.lines[pos]
           phones == RowPhones(row, cfg.phone_fields, EffectiveLabels(cfg), 1)
       IN /\ loc' = [name |-> OrEmptyStrip(RowGet(row, cfg.name_field)), phones |-> phones]
          /\ IF phones = <<>>
             THEN /\ pc' = "next"
                  /\ events' = Append(events, Event("skip", written))
             ELSE /\ pc' = "write"
                  /\ UNCHANGED events
    /\ UNCHANGED <<restVars, env, src, cfg, pos, i, total, written, out, stop, handles,
                   err, result, stopAt>>

BuildRow ==
    /\ pc = "row"
    /\ LET row == src.lines[pos]
           phones == RowPhones(row, cfg.phone_fields, EffectiveLabels(cfg), 1)
       IN /\ loc' = [name |-> OrEmptyStrip(RowGet(row, cfg.name_field)), phones |-> phones]
          /\ IF phones = <<>>
             THEN /\ pc' = "progress"
                  /\ events' = Append(events, Event("skip", written))
             ELSE /\ pc' = "write"
                  /\ UNCHANGED events
    /\ UNCHANGED <<restVars, env, src, cfg, pos, i, total, written, out, stop, handles,
                   err, result, stopAt>>

WriteRecord_NoCount ==
    /\ pc = "write"
    /\ out' = Append(out, format_vcard(FullName(cfg, loc.name), loc.phones))
    /\ events' = Append(events, Event("write", written))
    /\ pc' = "progress"
    /\ UNCHANGED <<restVars, env, src, cfg, pos, i, total, written, loc, stop, handles,
                   err, result, stopAt>>

WriteRecord_HonoursStop ==
    /\ pc = "write"
    /\ IF cfg.stop_event /\ stop
       THEN /\ pc' = "exit"
            /\ UNCHANGED <<out, written, events>>
       ELSE /\ out' = Append(out, format_vcard(FullName(cfg, loc.name), loc.phones))
            /\ written' = written + 1
            /\ events' = Append(events, Event("write", written + 1))
            /\ pc' = "progress"
    /\ UNCHANGED <<restVars, env, src, cfg, pos, i, total, loc, stop, result, stopAt,
                   err, handles>>

WriteRecord ==
    /\ pc = "write"
    /\ LET text == format_vcard(FullName(cfg, loc.name), loc.phones) IN
       IF text = IndexError
       THEN /\ Raise(IndexError)
            /\ UNCHANGED <<out, written, events>>
       ELSE /\ out' = Append(out, text)
            /\ written' = written + 1
            /\ events' = Append(events, Event("write", written + 1))
            /\ pc' = "progress"
            /\ UNCHANGED <<err, handles>>
    /\ UNCHANGED <<restVars, env, src, cfg, pos, i, total, loc, stop, result, stopAt>>

WriteFails ==
    /\ pc = "write"
    /\ Raise(OSError)
    /\ UNCHANGED <<restVars, env, src, cfg, pos, i, total, written, loc, out, stop,
                   result, events, stopAt>>

Progress_ZeroBased ==
    /\ pc = "progress"
    /\ events' = IF cfg.progress
                 THEN Append(events, [Event("progress", written) EXCEPT !.i = i - 1])
                 ELSE events
    /\ pc' = "next"
    /\ UNCHANGED <<restVars, env, src, cfg, pos, i, total, written, loc, out, stop,
                   handles, err, result, stopAt>>

Progress ==
    /\ pc = "progress"
    /\ events' = IF cfg.progress THEN Append(events, Event("progress", written)) ELSE events
    /\ pc' = "next"
    /\ UNCHANGED <<restVars, env, src, cfg, pos, i, total, written, loc, out, stop,
                   handles, err, result, stopAt>>

ProgressRaises ==
    /\ pc = "progress"
    /\ cfg.progress
    /\ Raise(CallbackError)
    /\ UNCHANGED <<restVars, env, src, cfg, pos, i, total, written, loc, out, stop,
                   result, events, stopAt>>

\* the with block is left, then the count is returned
Return ==
    /\ pc = "exit"
    /\ handles' = handles \ {"f_in", "vcf"}
    /\ result' = written
    /\ pc' = "returned"
    /\ UNCHANGED <<restVars, env, src, cfg, pos, i, total, written, loc, out, stop,
                   err, events, stopAt>>

\* another thread sets the stop event while the pass runs (or before it starts)
Cancel ==
    /\ cfg.stop_event
    /\ ~stop
    /\ pc \in {"count", "counting", "open", "open_out", "next", "check", "row", "write",
              "progress"}
    /\ stop' = TRUE
    /\ stopAt' = [pc |-> pc, i |-> i]
    /\ UNCHANGED <<restVars, env, src, cfg, pc, pos, i, total, written, loc, out,
                   handles, err, result, events>>

StreamStep ==
    \/ CountOpen \/ CountRows \/ CountFails \/ OpenInput \/ OpenFiles
    \/ NextRow \/ ReadFails \/ CheckStop \/ BuildRow
    \/ WriteRecord \/ WriteFails \/ Progress \/ ProgressRaises \/ Return

----------------------------------------------------------------------------
(* The pass applied to bounded sources and arguments *)

MaxRows == 1

Cells(n, p, a) == [blank |-> FALSE, cells |-> (NAME :> n) @@ (PHONE :> p) @@ (ALT :> a)]

BlankLine == [blank |-> TRUE, cells |-> (NAME :> None) @@ (PHONE :> None) @@ (ALT :> None)]

RowBoth == Cells(<<" ","A","l"," ","B"," ">>, <<"1"," ","2">>, <<"+","3">>)

RowOne == Cells(<<"A","l">>, <<"1","2">>, None)

RowAlt == Cells(<<>>, <<>>, <<"+","3">>)

RowEmpty == Cells(<<"A","l">>, <<>>, <<>>)

RowSpaces == Cells(<<" ">>, <<" ">>, None)

RowNoDigit == Cells(<<"A","l">>, <<"n","/","a">>, <<>>)

LineKinds == {RowBoth, RowOne, RowAlt, RowEmpty, RowSpaces, RowNoDigit, BlankLine}

Headers == <<NAME, PHONE, ALT>>

HOME == <<"h","o","m","e">>

WORK == <<"w","o","r","k">>

Cfgs ==
    [name_field : {NAME},
     phone_fields : {<<PHONE>>, <<PHONE, ALT>>, <<<<"t","e","l">>>>},
     phone_labels : {None, <<>>, <<HOME>>, <<HOME, WORK>>},
     prefix : {<<>>, <<" ","D","r"," ">>},
     postfix : {<<>>, <<" ">>, <<"J","r"," ">>},
     progress : BOOLEAN,
     stop_event : BOOLEAN]

\* the ten-row source of the cancellation example: rows 1..3 vary
LongTail == <<RowOne, RowEmpty, RowOne, RowOne, RowNoDigit, RowOne, RowOne>>

LongSources == { f \o LongTail : f \in [1..3 -> {RowOne, RowEmpty}] }

LongCfg ==
    [name_field |-> NAME, phone_fields |-> <<PHONE, ALT>>, phone_labels |-> <<HOME>>,
     prefix |-> <<>>, postfix |-> <<>>, progress |-> TRUE, stop_event |-> TRUE]

\* a source with a blank line between two rows
GappedSource == <<RowOne, BlankLine, RowBoth>>

Cases ==
    [lines : SeqsUpTo(LineKinds, MaxRows), cfg : Cfgs]
    \cup [lines : LongSources \cup {GappedSource}, cfg : {LongCfg}]

Envs == [exists : BOOLEAN, writable : BOOLEAN]

OldContent == <<"o","l","d">>

StreamInit ==
    /\ \E c \in Cases :
          /\ src = [headers |-> Headers, lines |-> c.lines]
          /\ cfg = c.cfg
    /\ env \in Envs
    /\ out \in {None, <<OldContent>>}
    /\ pc = "count"
    /\ pos = 0 /\ i = 0 /\ total = 0 /\ written = 0
    /\ loc = NoLoc
    /\ stop = FALSE
    /\ handles = {}
    /\ err = None /\ result = None
    /\ events = <<>>
    /\ stopAt = NoStop

FmtIdle == fmtPc = "idle" /\ fmtIn = [fn |-> <<>>, phones |-> <<>>] /\ fmtOut = None

Init == StreamInit /\ FmtIdle /\ ChIdle /\ cli = NoCli /\ gui = NoGui

Next == StreamStep \/ Cancel

Spec == Init /\ [][Next]_vars

----------------------------------------------------------------------------
(* choose_field: which column supplies the name or the phone *)

PrefsName ==
    << <<"n","a","m","e">>,
       <<"f","u","l","l","_","n","a","m","e">>,
       <<"f","u","l","l","n","a","m","e">>,
       <<"f","n">>,
       <<"d","i","s","p","l","a","y","_","n","a","m","e">>,
       <<"g","i","v","e","n","_","n","a","m","e">> >>

PrefsPhone ==
    << <<"p","h","o","n","e">>,
       <<"p","h","o","n","e","_","n","u","m","b","e","r">>,
       <<"p","h","o","n","e","1">>,
       <<"m","o","b","i","l","e">>,
       <<"m","o","b","i","l","e","_","p","h","o","n","e">>,
       <<"c","e","l","l">>,
       <<"c","e","l","l","p","h","o","n","e">> >>

\* prefs.get(field_type, [])
Prefs(field_type) ==
    IF field_type = KIND_NAME THEN PrefsName
    ELSE IF field_type = KIND_PHONE THEN PrefsPhone
    ELSE <<>>

InHeaders(x, headers) == \E k \in DOMAIN headers : headers[k] = x

\* the inner loop over headers: the first header equal to the keyword when
\* lower-cased; None when there is none
FirstHeader(headers, keyword) ==
    IF \E k \in DOMAIN headers : lower(headers[k]) = keyword
    THEN headers[CHOOSE k \in DOMAIN headers :
                    /\ lower(headers[k]) = keyword
                    /\ \A j \in 1..(k - 1) : lower(headers[j]) # keyword]
    ELSE None

\* the nested loops over prefs and headers: keyword order first, then header order
RECURSIVE HeuristicPick(_, _)
HeuristicPick(headers, prefs) ==
    IF prefs = <<>> THEN None
    ELSE LET h == FirstHeader(headers, Head(prefs))
         IN IF h # None THEN h ELSE HeuristicPick(headers, Tail(prefs))

DigitChars == <<"0","1","2","3","4","5","6","7","8","9">>

\* str.isdigit()
isdigit(s) == s # <<>> /\ \A k \in DOMAIN s : \E d \in DOMAIN DigitChars : DigitChars[d] = s[k]

DigitValue(c) == (CHOOSE d \in DOMAIN DigitChars : DigitChars[d] = c) - 1

\* int(s) of a digit string
RECURSIVE int(_)
int(s) == IF s = <<>> THEN 0 ELSE 10 * int(SubSeq(s, 1, Len(s) - 1)) + DigitValue(s[Len(s)])

\* one turn of the prompt loop: the column a typed line selects, None when
\* the loop prompts again
PromptAnswer(headers, typed) ==
    LET resp == strip(typed) IN
    IF resp = <<>> THEN None
    ELSE IF isdigit(resp)
         THEN LET idx == int(resp) - 1
              IN IF 0 <= idx /\ idx < Len(headers) THEN headers[idx + 1] ELSE None
         ELSE IF InHeaders(resp, headers) THEN resp ELSE None

\* the tiers after the prompt: the heuristic keywords, then the first header
NonInteractiveChoice(headers, field_type) ==
    LET h == HeuristicPick(headers, Prefs(field_type)) IN
    IF h # None THEN h
    ELSE IF headers # <<>> THEN headers[1]
    ELSE IndexError     \* headers[0] of an empty list

RequestedAndPresent(headers, desired) ==
    desired # None /\ desired # <<>> /\ InHeaders(desired, headers)

----------------------------------------------------------------------------
(* choose_field applied to bounded inputs *)

MaxHeaders == 2

MaxPrompts == 2

ChHeaders ==
    { <<"N","a","m","e">>, <<"n","a","m","e">>, <<"f","n">>, <<"M","o","b","i","l","e">>,
      <<"p","h","o","n","e">>, <<"7">>, <<"I","d">> }

ChDesired == { None, <<>>, <<"n","a","m","e">>, <<"M","o","b","i","l","e">> }

ChKinds == { KIND_NAME, KIND_PHONE, <<"e","m","a","i","l">> }

ChLines ==
    { <<>>, <<" ","1"," ">>, <<"2">>, <<"0">>, <<"7">>, <<"M","o","b","i","l","e">>, <<"x">> }

ChInit ==
    /\ chPc = "call"
    /\ chIn \in [headers : SeqsUpTo(ChHeaders, MaxHeaders), desired : ChDesired,
                 field_type : ChKinds, isatty : BOOLEAN]
    /\ chOut = None
    /\ chAsked = 0
    /\ chTyped = None
    /\ StreamIdle
    /\ FmtIdle
    /\ cli = NoCli
    /\ gui = NoGui

\* choose_field up to the prompt, or to its result when it does not prompt
ChooseStart ==
    /\ chPc = "call"
    /\ IF RequestedAndPresent(chIn.headers, chIn.desired)
       THEN chOut' = chIn.desired /\ chPc' = "returned"
       ELSE IF chIn.isatty
       THEN chPc' = "prompt" /\ UNCHANGED chOut
       ELSE LET r == NonInteractiveChoice(chIn.headers, chIn.field_type)
            IN chOut' = r /\ chPc' = IF r = IndexError THEN "raised" ELSE "returned"
    /\ UNCHANGED <<chIn, chAsked, chTyped, fmtVars, streamVars, cli, gui>>

\* one turn of the while True loop
PromptLine ==
    /\ chPc = "prompt"
    /\ chAsked < MaxPrompts
    /\ \E typed \in ChLines :
          LET a == PromptAnswer(chIn.headers, typed) IN
          /\ chTyped' = typed
          /\ chAsked' = chAsked + 1
          /\ IF a # None
             THEN chOut' = a /\ chPc' = "returned"
             ELSE UNCHANGED <<chOut, chPc>>
    /\ UNCHANGED <<chIn, fmtVars, streamVars, cli, gui>>

ChNext == ChooseStart \/ PromptLine

SpecChoose == ChInit /\ [][ChNext]_vars

----------------------------------------------------------------------------
(* Reading a produced text back: its lines, and what is escaped in a line *)

Count(s, x) == Cardinality({k \in DOMAIN s : s[k] = x})

StartsWith(s, p) == Len(s) >= Len(p) /\ SubSeq(s, 1, Len(p)) = p

EndsWith(s, p) == Len(s) >= Len(p) /\ SubSeq(s, Len(s) - Len(p) + 1, Len(s)) = p

RECURSIVE PrefixLen(_, _)
PrefixLen(s, c) == IF s = <<>> \/ Head(s) = c THEN 0 ELSE 1 + PrefixLen(Tail(s), c)

\* the pieces of s between occurrences of c (one more piece than occurrences)
RECURSIVE SplitOn(_, _)
SplitOn(s, c) ==
    LET k == PrefixLen(s, c) IN
    IF k = Len(s) THEN <<s>>
    ELSE <<SubSeq(s, 1, k)>> \o SplitOn(SubSeq(s, k + 2, Len(s)), c)

TextLines(text) == SplitOn(text, LF)

CountStarting(ls, p) == Cardinality({k \in DOMAIN ls : StartsWith(ls[k], p)})

\* occurrences of c in s that no backslash escapes
RECURSIVE UnescapedCount(_, _, _)
UnescapedCount(s, c, escaped) ==
    IF s = <<>> THEN 0
    ELSE IF escaped THEN UnescapedCount(Tail(s), c, FALSE)
    ELSE IF Head(s) = BS THEN UnescapedCount(Tail(s), c, TRUE)
    ELSE (IF Head(s) = c THEN 1 ELSE 0) + UnescapedCount(Tail(s), c, FALSE)

RECURSIVE Flatten(_)
Flatten(ss) == IF ss = <<>> THEN <<>> ELSE Head(ss) \o Flatten(Tail(ss))

\* the text after its n-th line feed
RECURSIVE AfterLines(_, _)
AfterLines(text, n) ==
    IF n = 0 \/ text = <<>> THEN text
    ELSE AfterLines(Tail(text), IF Head(text) = LF THEN n - 1 ELSE n)

FmtReturnedText == fmtPc = "returned" /\ IsText(fmtOut)

----------------------------------------------------------------------------
(* main: the command-line program *)

\* [x.strip() for x in text.split(',') if x.strip()]
SplitStripNonEmpty(text) ==
    LET pieces == SplitOn(text, ",")
        stripped == [k \in DOMAIN pieces |-> strip(pieces[k])]
    IN SelectSeq(stripped, LAMBDA x : x # <<>>)

\* what choose_field can return to main: its result, or every column the
\* prompt can be made to select; IndexError when it raises
ChooseOutcomes(headers, desired, field_type, isatty) ==
    IF RequestedAndPresent(headers, desired) THEN {desired}
    ELSE IF isatty THEN {PromptAnswer(headers, typed) : typed \in ChLines} \ {None}
    ELSE {NonInteractiveChoice(headers, field_type)}

\* sys.exit(code), or the interpreter's exit after an uncaught exception
Exit(code, message) ==
    cli' = [cli EXCEPT !.pc = "exited", !.code = code, !.printed = Append(@, message)]

\* get_csv_fieldnames, and exit code 2 when it finds no file
MainStart ==
    /\ cli.pc = "start"
    /\ IF env.exists
       THEN cli' = [cli EXCEPT !.pc = "name", !.headers = src.headers]
       ELSE Exit(2, <<"Input file not found">>)
    /\ UNCHANGED <<fmtVars, chVars, streamVars, gui>>

\* the name column
MainChooseName ==
    /\ cli.pc = "name"
    /\ LET desired == IF InHeaders(cli.args.name_field, cli.headers)
                      THEN cli.args.name_field ELSE None
       IN \E r \in ChooseOutcomes(cli.headers, desired, KIND_NAME, cli.isatty) :
             IF r = IndexError
             THEN Exit(1, <<"Traceback", IndexError>>)
             ELSE cli' = [cli EXCEPT !.pc = "phones", !.name_field = r]
    /\ UNCHANGED <<fmtVars, chVars, streamVars, gui>>

\* the phone columns and labels, then the call of write_vcards_stream
MainCallStream ==
    /\ cli.pc = "phones"
    /\ pc = "idle"
    /\ LET a == cli.args
           phone_fields == IF a.phone_fields \notin {None, <<>>}
                           THEN SplitStripNonEmpty(a.phone_fields)
                           ELSE IF a.phone_field # <<>> THEN <<a.phone_field>> ELSE <<>>
           valid == SelectSeq(phone_fields, LAMBDA pf : InHeaders(pf, cli.headers))
           phone_labels == IF a.phone_labels \notin {None, <<>>}
                           THEN SplitStripNonEmpty(a.phone_labels)
                           ELSE None
       IN \E r \in (IF valid # <<>> THEN {valid}
                    ELSE {IF c = IndexError THEN c ELSE <<c>> :
                            c \in ChooseOutcomes(cli.headers, None, KIND_PHONE, cli.isatty)}) :
             IF r = IndexError
             THEN /\ Exit(1, <<"Traceback", IndexError>>)
                  /\ UNCHANGED <<cfg, pc>>
             ELSE /\ cfg' = [name_field |-> cli.name_field, phone_fields |-> r,
                             phone_labels |-> phone_labels, prefix |-> a.prefix,
                             postfix |-> a.postfix, progress |-> FALSE, stop_event |-> FALSE]
                  /\ pc' = "count"
                  /\ cli' = [cli EXCEPT !.pc = "stream"]
    /\ UNCHANGED <<fmtVars, chVars, gui, env, src, pos, i, total, written, loc, out, stop,
                   handles, err, result, events, stopAt>>

\* the summary line after the pass; an exception of the pass is not caught
MainAfterStream ==
    /\ cli.pc = "stream"
    /\ pc \in {"returned", "raised"}
    /\ IF pc = "returned"
       THEN Exit(0, <<"Wrote", result, "vCards to output_path">>)
       ELSE Exit(1, <<"Traceback", err>>)
    /\ UNCHANGED <<fmtVars, chVars, streamVars, gui>>

MainStep == MainStart \/ MainChooseName \/ MainCallStream \/ MainAfterStream

----------------------------------------------------------------------------
(* main applied to bounded files and arguments *)

ID == <<"I","d">>

MOBILE == <<"M","o","b","i","l","e">>

RowIdMobile == [blank |-> FALSE, cells |-> (ID :> <<"4">>) @@ (MOBILE :> <<"5","5">>)]

CliSources ==
    { [headers |-> <<>>, lines |-> <<>>],
      [headers |-> <<ID, MOBILE>>, lines |-> <<RowIdMobile>>] }
    \cup { [headers |-> Headers, lines |-> l] :
             l \in SeqsUpTo({RowBoth, RowNoDigit, RowEmpty}, MaxRows) }

CliArgs ==
    [name_field : {NAME, <<"n","m">>},
     phone_field : {PHONE},
     phone_fields : {None, <<"p","h","o","n","e",",","a","l","t">>,
                     <<"t","e","l",","," ","a","l","t">>, <<"t","e","l">>},
     phone_labels : {None, <<"h","o","m","e",",","w","o","r","k">>, <<",","w","o","r","k">>},
     prefix : {<<>>},
     postfix : {<<>>, <<"J","r">>}]

CliInit ==
    /\ cli \in [pc : {"start"}, args : CliArgs, isatty : BOOLEAN, headers : {<<>>},
                name_field : {None}, code : {0}, printed : {<<>>}]
    /\ src \in CliSources
    /\ env \in Envs
    /\ out \in {None, <<OldContent>>}
    /\ cfg = NoCfg
    /\ pc = "idle"
    /\ pos = 0 /\ i = 0 /\ total = 0 /\ written = 0
    /\ loc = NoLoc
    /\ stop = FALSE
    /\ handles = {}
    /\ err = None /\ result = None
    /\ events = <<>>
    /\ stopAt = NoStop
    /\ FmtIdle
    /\ ChIdle
    /\ gui = NoGui

\* main passes no progress callback and no stop event
CliNext ==
    \/ MainStep
    \/ CountOpen \/ CountRows \/ CountFails \/ OpenInput \/ OpenFiles
    \/ NextRow \/ ReadFails \/ CheckStop \/ BuildRow
    \/ WriteRecord \/ WriteFails \/ Progress \/ Return

SpecCli == CliInit /\ [][CliNext]_vars

----------------------------------------------------------------------------
(* Claims about the record formatter, under SpecFormat *)

\* C6: for every name and every list of phone entries, format_vcard returns a
\* text with exactly one BEGIN:VCARD line (the first) and one END:VCARD line
\* (the last), exactly one VERSION:3.0 line, one FN line and one N line.
C6_OneBeginEndPair ==
    FmtReturnedText =>
        LET ls == TextLines(fmtOut)
            n == Len(ls)
        IN    /\ n >= 3
              /\ Count(ls, BEGIN_VCARD) = 1 /\ ls[1] = BEGIN_VCARD
              /\ Count(ls, END_VCARD) = 1 /\ ls[n - 1] = END_VCARD /\ ls[n] = <<>>
              /\ Count(ls, VERSION_3_0) = 1
              /\ CountStarting(ls, FN_) = 1
              /\ CountStarting(ls, N_) = 1

\* C7: in the N line, the ';' separators inserted by the join are not
\* escaped: the line has as many unescaped ';' as the joined name-component
\* string has separators (its ';' that do not come from the name itself).
C7_JoinSeparatorsUnescaped ==
    FmtReturnedText /\ split(fmtIn.fn) # <<>> =>
        LET nline == TextLines(fmtOut)[4]
            joined == format_n_field(fmtIn.fn)
        IN UnescapedCount(nline, ";", FALSE) = Count(joined, ";") - Count(fmtIn.fn, ";")

KeptChars(number) == IF number = None THEN <<>> ELSE SelectSeq(number, IsPhoneChar)

LabelOrCell(label) == IF label = None \/ label = <<>> THEN CELL ELSE upper(label)

ExpectedTel(phones) ==
    LET kept == SelectSeq(phones, LAMBDA p : KeptChars(p.number) # <<>>)
    IN [k \in 1..Len(kept) |->
           TEL_TYPE \o LabelOrCell(kept[k].label) \o <<":">> \o KeptChars(kept[k].number) \o <<LF>>]

----------------------------------------------------------------------------
(* Claims about the streaming pass, under Spec *)

\* the rows the main pass iterates, in order (row r has index r)
DataRows == SelectSeq(src.lines, LAMBDA l : ~l.blank)

\* a row is phone-bearing when some configured phone field is non-empty after trimming
Qualifies(row) ==
    \E k \in DOMAIN cfg.phone_fields :
        RowGet(row, cfg.phone_fields[k]) # None /\ strip(RowGet(row, cfg.phone_fields[k])) # <<>>

QualifyingUpTo(r) == Cardinality({k \in 1..r : k <= Len(DataRows) /\ Qualifies(DataRows[k])})

EventsOf(kinds) == SelectSeq(events, LAMBDA e : e.ev \in kinds)

Broke == \E k \in DOMAIN events : events[k].ev = "break"

\* the stop event was set before the top-of-loop check of row r
SetBeforeCheck(r) ==
    /\ cfg.stop_event /\ stop
    /\ \/ stopAt.i < r
       \/ stopAt.i = r /\ stopAt.pc = "check"

\* the stop event was set after row r - 1 was done and before the check of row r
SetJustBeforeCheck(r) ==
    /\ cfg.stop_event /\ stop
    /\ \/ stopAt.i = r - 1 /\ stopAt.pc = "next"
       \/ stopAt.i = r /\ stopAt.pc = "check"

\* the stop event was set while row r was in flight, after its check
SetInFlight(r) ==
    /\ cfg.stop_event /\ stop
    /\ stopAt.i = r /\ stopAt.pc \in {"row", "write", "progress"}

\* the records in the output are those of the rows written, in order
OutHoldsWrites ==
    LET ws == EventsOf({"write"}) IN
    /\ Len(out) = Len(ws)
    /\ \A k \in DOMAIN ws :
          /\ ws[k].written = k
          /\ out[k] = format_vcard(
                 FullName(cfg, OrEmptyStrip(RowGet(DataRows[ws[k].i], cfg.name_field))),
                 RowPhones(DataRows[ws[k].i], cfg.phone_fields, EffectiveLabels(cfg), 1))

\* C1: when the stop event is seen set at the check of row i the loop stops
\* there: no row whose check came after the event was set is processed (no
\* record, no progress callback for row i or a later row), nothing follows
\* the break, the records of the rows before i stay in the output, and the
\* call returns normally with the count written so far.
C1_StopSeenAtCheckEndsPass ==
    /\ pc \in {"row", "write", "progress"} => ~SetBeforeCheck(i)
    /\ \A k \in DOMAIN events :
          events[k].ev \in {"skip", "write", "progress"} => ~SetBeforeCheck(events[k].i)
    /\ Broke =>
          LET b == Len(events) IN
          /\ events[b].ev = "break"
          /\ \A k \in 1..(b - 1) : events[k].ev # "break" /\ events[k].i < events[b].i
          /\ pc \in {"exit", "returned"}
          /\ err = None
          /\ written = events[b].written
          /\ OutHoldsWrites
          /\ pc = "returned" => result = Len(EventsOf({"write"}))

C1_Witness ==
    /\ pc = "returned" /\ Broke
    /\ Len(DataRows) > 3
    /\ events[Len(events)].i = 3
    /\ result = 2

\* C2 as stated: with ten rows, the stop event set before row 3 is
\* processed, row 3 still completes, nothing after row 3 is written and the
\* count returned is that of the qualifying rows among rows 1..3.
C2_RowKStillCompletes ==
    pc = "returned" /\ Len(DataRows) = 10 /\ SetJustBeforeCheck(3) =>
        /\ \E k \in DOMAIN events : events[k].ev \in {"skip", "write"} /\ events[k].i = 3
        /\ \A k \in DOMAIN events : events[k].ev = "write" => events[k].i <= 3
        /\ result = QualifyingUpTo(3)

\* C2 amended: the stop event set before the check of row k ends the pass
\* at row k: row k is not processed, no record of row k or a later row is
\* written and the count returned is that of the qualifying rows among rows
\* 1..k-1.  Row k completes only when the event is set after its check, while
\* it is in flight; the count then covers rows 1..k.
C2_StopBeforeRowKSkipsRowK ==
    \A k \in 1..Len(DataRows) :
        /\ pc = "returned" /\ SetJustBeforeCheck(k) =>
              /\ \A e \in DOMAIN events :
                    events[e].ev \in {"skip", "write", "progress"} => events[e].i < k
              /\ result = QualifyingUpTo(k - 1)
              /\ Len(out) = result
        /\ pc = "returned" /\ SetInFlight(k) =>
              /\ \E e \in DOMAIN events : events[e].ev \in {"skip", "write"} /\ events[e].i = k
              /\ \A e \in DOMAIN events :
                    events[e].ev \in {"skip", "write", "progress"} => events[e].i <= k
              /\ result = QualifyingUpTo(k)
              /\ Len(out) = result

C2_Witness ==
    /\ pc = "returned" /\ Len(DataRows) = 10 /\ SetJustBeforeCheck(3)
    /\ Qualifies(DataRows[3])
    /\ QualifyingUpTo(2) = 1
    /\ result = 1

\* C3: a row whose configured phone fields are all empty after trimming
\* gets no record and no increment of the count, and the progress callback
\* is still called for it with its row index and rows_total.
C3_PhonelessRowSkippedButReported ==
    /\ written = Len(EventsOf({"write"}))
    /\ events # <<>> => Len(out) = written
    /\ pc = "write" => Qualifies(DataRows[i])
    /\ \A k \in DOMAIN events :
          /\ events[k].ev = "write" => Qualifies(DataRows[events[k].i])
          /\ events[k].ev = "skip" =>
                /\ ~Qualifies(DataRows[events[k].i])
                /\ cfg.progress =>
                      IF k = Len(events)
                      THEN pc = "progress" \/ (pc = "raised" /\ err = CallbackError)
                      ELSE events[k + 1] = [events[k] EXCEPT !.ev = "progress"]
                /\ events[k].total = Len(src.lines)
    /\ \A r \in 1..Len(DataRows) :
          (r < i /\ ~Qualifies(DataRows[r])) =>
              \E k \in DOMAIN events : events[k].ev = "skip" /\ events[k].i = r

C3_Witness ==
    /\ pc = "returned" /\ cfg.progress
    /\ Len(DataRows) = 1 /\ DataRows[1] = RowSpaces
    /\ result = 0 /\ out = <<>>
    /\ EventsOf({"progress"}) = <<[ev |-> "progress", i |-> 1, total |-> 1, written |-> 0]>>

\* C4: a pass that runs to the end without breaking calls the progress
\* callback exactly once per row, with row index 1, 2, ..., n in order and
\* the same rows_total; for a row that emits a record the call comes right
\* after the write, with the count already incremented.
C4_ProgressOncePerRowInOrder ==
    (pc = "returned" /\ ~Broke /\ cfg.progress) =>
        LET ps == EventsOf({"progress"}) IN
        /\ Len(ps) = Len(DataRows)
        /\ \A r \in DOMAIN ps : ps[r].i = r /\ ps[r].total = total
        /\ \A k \in DOMAIN events :
              events[k].ev = "write" =>
                  /\ k < Len(events)
                  /\ events[k + 1] = [events[k] EXCEPT !.ev = "progress"]
                  /\ events[k].written = Len(SelectSeq(SubSeq(events, 1, k), LAMBDA e : e.ev = "write"))
        /\ \A k \in DOMAIN events :
              events[k].ev = "progress" =>
                  /\ k > 1
                  /\ events[k - 1].ev \in {"write", "skip"}
                  /\ events[k - 1].i = events[k].i

C4_Witness ==
    /\ pc = "returned" /\ ~Broke /\ cfg.progress
    /\ Len(DataRows) = 10
    /\ result > 5 /\ result < 10

\* C5: every record the pass appends to the output has at least one TEL line.
C5_EveryRecordHasTel ==
    events # <<>> =>
        \A k \in DOMAIN out : CountStarting(TextLines(out[k]), <<"T","E","L">>) >= 1

----------------------------------------------------------------------------
(* Claims about choose_field, under SpecChoose *)

KeywordMatches(kw) == \E k \in DOMAIN chIn.headers : lower(chIn.headers[k]) = kw

\* the header the keyword tier selects: the first header equal, ignoring
\* case, to the first keyword that equals some header
KeywordTierSelects(h) ==
    LET prefs == Prefs(chIn.field_type) IN
    \E p \in DOMAIN prefs :
        /\ KeywordMatches(prefs[p])
        /\ \A q \in 1..(p - 1) : ~KeywordMatches(prefs[q])
        /\ \E k \in DOMAIN chIn.headers :
              /\ lower(chIn.headers[k]) = prefs[p]
              /\ \A j \in 1..(k - 1) : lower(chIn.headers[j]) # prefs[p]
              /\ h = chIn.headers[k]

\* the header the typed line selects, by 1-based index or by exact name
TypedSelects(h) ==
    LET resp == strip(chTyped) IN
    \/ isdigit(resp) /\ \E k \in DOMAIN chIn.headers : int(resp) = k /\ h = chIn.headers[k]
    \/ ~isdigit(resp) /\ resp = h /\ InHeaders(h, chIn.headers)

\* the four tiers, in their order
C8_Cascade ==
    chPc = "returned" =>
        IF chIn.desired \notin {None, <<>>} /\ InHeaders(chIn.desired, chIn.headers)
        THEN chOut = chIn.desired /\ chAsked = 0
        ELSE IF chIn.isatty
        THEN chAsked > 0 /\ TypedSelects(chOut)
        ELSE IF \E p \in DOMAIN Prefs(chIn.field_type) : KeywordMatches(Prefs(chIn.field_type)[p])
        THEN KeywordTierSelects(chOut)
        ELSE chOut = chIn.headers[1]

\* for every header list the call returns one of the header names
C8_ReturnsAHeader ==
    /\ chPc # "raised"
    /\ chPc = "returned" => InHeaders(chOut, chIn.headers)

\* C8: choose_field follows the four tiers exactly (requested name present
\* in the headers; else the prompt when interactive; else the first keyword
\* of the kind's list that equals a header ignoring case; else the first
\* header) and for every header list returns one of the header names.
C8_FourTiersAndAHeader == C8_Cascade /\ C8_ReturnsAHeader

\* a response that is a 1-based index into the headers
ValidIndex(resp) == isdigit(resp) /\ 1 <= int(resp) /\ int(resp) <= Len(chIn.headers)

\* C22: at the prompt, the line read last (trimmed) ends the loop exactly
\* when it is a valid 1-based index or equals a header name, a name made of
\* digits included; the call then returns the column at that index or of
\* that name; any other line leaves the loop prompting.
C22_PromptAcceptsIndexOrName ==
    (chAsked > 0 /\ chPc \in {"prompt", "returned"}) =>
        LET resp == strip(chTyped) IN
        /\ chPc = "returned" <=> (ValidIndex(resp) \/ InHeaders(resp, chIn.headers))
        /\ chPc = "returned" =>
              \/ ValidIndex(resp) /\ chOut = chIn.headers[int(resp)]
              \/ InHeaders(resp, chIn.headers) /\ chOut = resp

----------------------------------------------------------------------------
(* Claims about the command-line program, under SpecCli *)

\* C9: the program exits with code 2 when the input file is absent, with
\* code 3 when the output file cannot be created or written, and with code 0
\* after printing the summary line when the pass completes.
C9_ExitCodes ==
    cli.pc = "exited" =>
        /\ ~env.exists => cli.code = 2
        /\ err = OSError => cli.code = 3
        /\ pc = "returned" =>
              /\ cli.code = 0
              /\ cli.printed = <<<<"Wrote", result, "vCards to output_path">>>>

----------------------------------------------------------------------------
(* escape_vcard_value applied to bounded inputs *)

MaxValueLen == 4

EscChars == {BS, CR, LF, ",", ";", " ", "a"}

EscValues == {None} \cup SeqsUpTo(EscChars, MaxValueLen)

EscInit ==
    /\ fmtPc = "call"
    /\ fmtIn \in [value : EscValues]
    /\ fmtOut = None
    /\ StreamIdle
    /\ ChIdle
    /\ cli = NoCli
    /\ gui = NoGui

EscapeValue ==
    /\ fmtPc = "call"
    /\ fmtOut' = escape_vcard_value(fmtIn.value)
    /\ fmtPc' = "returned"
    /\ UNCHANGED <<fmtIn, streamVars, chVars, cli, gui>>

EscNext == EscapeValue

SpecEscape == EscInit /\ [][EscNext]_vars

\* what one character of the input becomes
EscapedChar(c) ==
    IF c = BS THEN <<BS, BS>>
    ELSE IF c \in {CR, LF} THEN <<" ">>
    ELSE IF c \in {",", ";"} THEN <<BS, c>>
    ELSE <<c>>

\* reading an escaped text back: a backslash stands for the character after it
RECURSIVE Unescape(_)
Unescape(s) ==
    IF s = <<>> THEN <<>>
    ELSE IF Head(s) = BS /\ Len(s) >= 2 THEN <<s[2]>> \o Unescape(Tail(Tail(s)))
    ELSE <<Head(s)>> \o Unescape(Tail(s))

\* C11: escape_vcard_value returns the input with every backslash doubled,
\* every CR and LF turned into one space, every comma and semicolon given one
\* backslash, and the whole trimmed; the result has no CR or LF, no comma or
\* semicolon without its backslash, the inserted backslashes are not doubled
\* (the result reads back as the trimmed input with spaces for CR and LF), and
\* an absent input gives the empty string.
C11_EscapeOrder ==
    fmtPc = "returned" =>
        IF fmtIn.value = None THEN fmtOut = <<>>
        ELSE LET v == fmtIn.value IN
             /\ fmtOut = strip(Flatten([k \in DOMAIN v |-> EscapedChar(v[k])]))
             /\ Count(fmtOut, CR) = 0 /\ Count(fmtOut, LF) = 0
             /\ UnescapedCount(fmtOut, ",", FALSE) = 0
             /\ UnescapedCount(fmtOut, ";", FALSE) = 0
             /\ Count(fmtOut, BS) = 2 * Count(v, BS) + Count(v, ",") + Count(v, ";")
             /\ Unescape(fmtOut) = strip(replace(replace(v, CR, <<" ">>), LF, <<" ">>))

C11_Witness ==
    /\ fmtPc = "returned"
    /\ fmtIn.value = <<LF, BS, ",", " ">>
    /\ fmtOut = <<BS, BS, BS, ",">>

----------------------------------------------------------------------------
(* format_n_field applied to bounded inputs *)

MaxNameLen == 7

NameChars == {" ", TAB, "a", "b"}

NFieldInit ==
    /\ fmtPc = "call"
    /\ fmtIn \in [full_name : SeqsUpTo(NameChars, MaxNameLen)]
    /\ fmtOut = None
    /\ StreamIdle
    /\ ChIdle
    /\ cli = NoCli
    /\ gui = NoGui

FormatNField ==
    /\ fmtPc = "call"
    /\ fmtOut' = format_n_field(fmtIn.full_name)
    /\ fmtPc' = "returned"
    /\ UNCHANGED <<fmtIn, streamVars, chVars, cli, gui>>

NFieldNext == FormatNField

SpecNField == NFieldInit /\ [][NFieldNext]_vars

\* the maximal runs of non-whitespace characters of s, in order
Tokens(s) ==
    LET starts == {k \in DOMAIN s : s[k] \notin Whitespace
                                     /\ (k = 1 \/ s[k - 1] \in Whitespace)}
        EndOf(a) == CHOOSE b \in a..Len(s) :
                       /\ \A j \in a..b : s[j] \notin Whitespace
                       /\ (b = Len(s) \/ s[b + 1] \in Whitespace)
        Nth(n) == CHOOSE a \in starts : Cardinality({x \in starts : x < a}) = n - 1
    IN [n \in 1..Cardinality(starts) |-> SubSeq(s, Nth(n), EndOf(Nth(n)))]

\* C12: the components of the N value are positional on the whitespace-
\* separated tokens of the name: family;given;additional;prefix;suffix with
\* given the first token, family the last token of two or more (empty for
\* one), additional the middle tokens joined by one space (empty for one or
\* two), prefix and suffix empty.
C12_PositionalComponents ==
    (fmtPc = "returned" /\ Tokens(fmtIn.full_name) # <<>>) =>
        LET t == Tokens(fmtIn.full_name)
            n == Len(t)
            c == SplitOn(fmtOut, ";")
        IN /\ IsText(fmtOut)
           /\ Len(c) = 5
           /\ c[2] = t[1]
           /\ c[1] = IF n = 1 THEN <<>> ELSE t[n]
           /\ c[3] = IF n <= 2 THEN <<>> ELSE join(SubSeq(t, 2, n - 1), <<" ">>)
           /\ c[4] = <<>> /\ c[5] = <<>>

C12_Witness ==
    /\ fmtPc = "returned"
    /\ fmtIn.full_name = <<"a", TAB, "b", " ", " ", "a", "b">>
    /\ fmtOut = <<"a", "b", ";", "a", ";", "b", ";", ";">>

\* C21: for every name, the empty one included, the string format_n_field
\* returns has five components separated by four ';' (the names here hold no
\* ';' of their own), and the empty name gives five empty components.
C21_FiveComponents ==
    (fmtPc = "returned" /\ IsText(fmtOut)) =>
        /\ Count(fmtOut, ";") = 4
        /\ Len(SplitOn(fmtOut, ";")) = 5
        /\ fmtIn.full_name = <<>> => fmtOut = <<";", ";", ";", ";">>

----------------------------------------------------------------------------
(* Claims about the rows the pass hands to the formatter, under Spec *)

\* the trimmed cell of phone field number idx (1-based) of a row
PhoneCell(row, idx) ==
    LET v == RowGet(row, cfg.phone_fields[idx]) IN IF v = None THEN <<>> ELSE strip(v)

\* the positions of the phone fields whose cell is not empty
KeptFields(row) == {idx \in DOMAIN cfg.phone_fields : PhoneCell(row, idx) # <<>>}

\* the n-th smallest element of a set of numbers
NthOf(S, n) == CHOOSE x \in S : Cardinality({y \in S : y < x}) = n - 1

\* the label that belongs to phone field number idx
LabelAt(idx) ==
    IF cfg.phone_labels # None /\ idx <= Len(cfg.phone_labels)
    THEN cfg.phone_labels[idx]
    ELSE CELL

\* C13: the entries handed to the formatter are those of the phone fields
\* with a non-empty cell, in field order, and the entry of field number idx
\* carries phone_labels[idx] when labels are supplied and reach idx, CELL
\* otherwise; the TEL lines of the record written carry these labels.
C13_LabelByFieldPosition ==
    pc \in {"write", "progress"} =>
        LET row == src.lines[pos]
            K == KeptFields(row)
        IN /\ Len(loc.phones) = Cardinality(K)
           /\ \A n \in DOMAIN loc.phones :
                 /\ loc.phones[n].number = PhoneCell(row, NthOf(K, n))
                 /\ loc.phones[n].label = LabelAt(NthOf(K, n))
           /\ (pc = "progress" /\ K # {}) =>
                 AfterLines(out[Len(out)], 4)
                     = Flatten(ExpectedTel(
                           [n \in 1..Cardinality(K) |->
                               [number |-> PhoneCell(row, NthOf(K, n)),
                                label |-> LabelAt(NthOf(K, n))]]))
                       \o END_VCARD \o <<LF>>

\* a row whose first phone field is empty gets the second field's label
C13_Witness ==
    /\ pc = "progress"
    /\ src.lines[pos] = RowAlt
    /\ cfg.phone_fields = <<PHONE, ALT>>
    /\ cfg.phone_labels = <<HOME, WORK>>
    /\ loc.phones = <<[number |-> <<"+","3">>, label |-> WORK]>>

\* the trimmed prefix, the trimmed name cell and the trimmed postfix of a
\* row, without the empty ones
NameComponents(row) ==
    LET cell == RowGet(row, cfg.name_field)
        all == << strip(cfg.prefix), IF cell = None THEN <<>> ELSE strip(cell),
                  strip(cfg.postfix) >>
    IN SelectSeq(all, LAMBDA x : x # <<>>)

ExpectedFullName(row) == join(NameComponents(row), <<" ">>)

\* C14: the full name handed to the formatter for a row is the non-empty
\* ones of trimmed prefix, trimmed name and trimmed postfix, in this order,
\* joined by one space; it has no whitespace at either end; and the FN line
\* of every record written is that name, escaped.
C14_FullNameJoin ==
    /\ pc = "write" =>
          /\ FullName(cfg, loc.name) = ExpectedFullName(src.lines[pos])
          /\ FullName(cfg, loc.name) = strip(FullName(cfg, loc.name))
    /\ LET ws == EventsOf({"write"}) IN
       \A k \in DOMAIN ws :
           k <= Len(out) =>
               TextLines(out[k])[3]
                   = FN_ \o escape_vcard_value(ExpectedFullName(DataRows[ws[k].i]))

\* a whitespace-only postfix adds no component
C14_Witness ==
    /\ pc = "progress" /\ Len(out) = 1
    /\ cfg.prefix = <<" ","D","r"," ">> /\ cfg.postfix = <<" ">>
    /\ src.lines[pos] = RowBoth
    /\ TextLines(out[1])[3] = FN_ \o <<"D","r"," ","A","l"," ","B">>

----------------------------------------------------------------------------
(* Claims about the pass as a whole, under Spec *)

\* the handles each place of the pass holds open
HandlesAt(where) ==
    IF where = "counting" THEN {"f"}
    ELSE IF where = "open_out" THEN {"f_in"}
    ELSE IF where \in {"next", "check", "row", "write", "progress", "exit"}
    THEN {"f_in", "vcf"}
    ELSE {}

\* C15: the count pass's handle, the main pass's input handle and the
\* output handle are open only while the pass is inside the block that holds
\* them, and none is open once the call has returned or raised, whichever
\* way it ended: to the end of the rows, at a break, at a failed open, read
\* or write, or at an exception of the progress callback.
C15_HandlesClosedOnEveryExit ==
    /\ handles = HandlesAt(pc)
    /\ pc \in {"returned", "raised"} => handles = {}

C15_Witness ==
    /\ pc = "raised" /\ err = CallbackError
    /\ written = 1 /\ Len(out) = 1
    /\ handles = {}

\* a text that is one complete record: BEGIN:VCARD first, END:VCARD last,
\* and neither of them in between
CompleteBlock(text) ==
    LET ls == TextLines(text) IN
    /\ Len(ls) >= 3
    /\ ls[1] = BEGIN_VCARD /\ ls[Len(ls) - 1] = END_VCARD /\ ls[Len(ls)] = <<>>
    /\ Count(ls, BEGIN_VCARD) = 1 /\ Count(ls, END_VCARD) = 1

\* C19: a stop event set while row k is in flight, after its check, does
\* not cut the row short: when the pass has left the loop, row k has its
\* record (if it has a phone) and its progress call, and no later row has
\* either; and whenever the call returns, the output is as many complete
\* BEGIN:VCARD..END:VCARD blocks as the count returned.
C19_PerRowGranularity ==
    /\ \A k \in 1..Len(DataRows) :
          (pc \in {"exit", "returned"} /\ SetInFlight(k)) =>
              /\ Qualifies(DataRows[k]) <=>
                     \E e \in DOMAIN events : events[e].ev = "write" /\ events[e].i = k
              /\ cfg.progress =>
                     \E e \in DOMAIN events : events[e].ev = "progress" /\ events[e].i = k
              /\ \A e \in DOMAIN events :
                     events[e].ev \in {"skip", "write", "progress"} => events[e].i <= k
              /\ k < Len(DataRows) => Broke /\ events[Len(events)].i = k + 1
    /\ pc = "returned" =>
          /\ Len(out) = result
          /\ \A k \in DOMAIN out : CompleteBlock(out[k])
          /\ Count(TextLines(Flatten(out)), BEGIN_VCARD) = result
          /\ Count(TextLines(Flatten(out)), END_VCARD) = result

C19_Witness ==
    /\ pc = "returned" /\ Broke
    /\ Len(DataRows) = 10
    /\ stopAt = [pc |-> "write", i |-> 2]
    /\ Qualifies(DataRows[2])
    /\ result = 2
    /\ events[Len(events)].i = 3

\* with no input file, nothing of the pass has happened but the raise
MissingInputOnlyRaises ==
    ~env.exists =>
        /\ pc \in {"count", "raised"}
        /\ pc = "raised" => err = FileNotFoundError
        /\ events = <<>>
        /\ handles = {}
        /\ written = 0 /\ i = 0

\* C23: when the input path does not exist the call raises the not-found
\* error before the output is opened: no step of the call creates, truncates
\* or changes the file at the output path, the output is never opened and
\* the progress callback is never called.
C23_NotFoundBeforeOutput ==
    /\ []MissingInputOnlyRaises
    /\ [][~env.exists => UNCHANGED out]_vars

C23_Witness ==
    /\ ~env.exists
    /\ pc = "raised" /\ err = FileNotFoundError
    /\ cfg.progress
    /\ src.lines # <<>>
    /\ events = <<>>

\* C20: the total of the count pass is the number of rows the main pass
\* iterates: every progress call has 1 <= row index <= total, and in a pass
\* that runs to the end without a break the last progress call is that of
\* row total, the last row iterated.
C20_TotalIsRowsIterated ==
    /\ \A k \in DOMAIN events :
          events[k].ev = "progress" => 1 <= events[k].i /\ events[k].i <= events[k].total
    /\ (pc = "returned" /\ ~Broke /\ cfg.progress /\ EventsOf({"progress"}) # <<>>) =>
          LET ps == EventsOf({"progress"}) IN
          /\ ps[Len(ps)].i = total
          /\ i = total

----------------------------------------------------------------------------
(* Claims about the columns and labels main hands to the pass, under SpecCli *)

\* the phone columns the command line asks for
RequestedPhoneFields ==
    IF cli.args.phone_fields \notin {None, <<>>}
    THEN SplitStripNonEmpty(cli.args.phone_fields)
    ELSE IF cli.args.phone_field # <<>> THEN <<cli.args.phone_field>> ELSE <<>>

NoRequestedPhoneColumn ==
    \A k \in DOMAIN RequestedPhoneFields : ~InHeaders(RequestedPhoneFields[k], src.headers)

\* C16: when none of the requested phone columns is among the headers and
\* standard input is no terminal, the program stops before the pass begins:
\* write_vcards_stream is never called, the output file is neither created
\* nor truncated, and the exit code is not 0.
C16_ValidationErrorAtStartup ==
    (env.exists /\ NoRequestedPhoneColumn /\ ~cli.isatty) =>
        /\ pc = "idle"
        /\ EventsOf({"open"}) = <<>>
        /\ cli.pc = "exited" => cli.code # 0

\* the entries of --phone-labels by position, each trimmed, empty ones kept
LabelsByPosition ==
    IF cli.args.phone_labels \in {None, <<>>} THEN <<>>
    ELSE LET pieces == SplitOn(cli.args.phone_labels, ",")
         IN [k \in DOMAIN pieces |-> strip(pieces[k])]

\* the label at position k of --phone-labels, CELL when there is none
CliLabelAt(k) ==
    IF k <= Len(LabelsByPosition) /\ LabelsByPosition[k] # <<>>
    THEN LabelsByPosition[k]
    ELSE CELL

\* the positions of --phone-fields that give the row a number
CliKeptFields(row) ==
    {k \in DOMAIN RequestedPhoneFields :
        /\ RowGet(row, RequestedPhoneFields[k]) # None
        /\ strip(RowGet(row, RequestedPhoneFields[k])) # <<>>}

\* C17: with --phone-fields given and some requested column among the
\* headers, the TEL lines of every record are those of the requested columns
\* that give the row a number, in the order of --phone-fields, and the line
\* of the column at position k carries the label at position k of
\* --phone-labels.
C17_CliLabelsByPosition ==
    (cli.pc = "stream" /\ pc = "progress" /\ cli.args.phone_fields # None
        /\ ~NoRequestedPhoneColumn /\ events[Len(events)].ev = "write") =>
        LET row == src.lines[pos]
            K == CliKeptFields(row)
        IN AfterLines(out[Len(out)], 4)
               = Flatten(ExpectedTel(
                     [n \in 1..Cardinality(K) |->
                         [number |-> strip(RowGet(row, RequestedPhoneFields[NthOf(K, n)])),
                          label |-> CliLabelAt(NthOf(K, n))]]))
                 \o END_VCARD \o <<LF>>

----------------------------------------------------------------------------
(* The window: the Tk main loop and the worker thread of run_vcf_maker *)

\* a widget is changed by a thread
Touch(g, widgets, thread) ==
    [g EXCEPT !.touched = @ \cup {[widget |-> w, by |-> thread] : w \in widgets}]

\* Text.insert: a disabled text widget ignores it
LogInsert(g, entry) ==
    [g EXCEPT !.log = IF g.log_state = "normal" THEN Append(@, entry) ELSE @]

\* update_output_default, bound to key releases in the input field: Run is
\* enabled when the field holds a path, disabled when it is empty
InputEdited ==
    /\ \E filled \in BOOLEAN :
          gui' = Touch([gui EXCEPT !.run_button = IF filled THEN "normal" ELSE "disabled"],
                       {"run_button"}, "main")
    /\ UNCHANGED <<fmtVars, chVars, cli, streamVars>>

\* on_run, the command of the Run button.  The first conversion started is
\* followed row by row (wpc and the variables of the pass); of a second one,
\* started while or after the first runs, only the thread (wpc2) and its stop
\* event (stop2) are followed.
OnRun ==
    /\ gui.run_button = "normal"
    /\ gui.wpc = "none" \/ gui.wpc2 = "none"
    /\ IF cfg.phone_fields = <<>>
       THEN gui' = [gui EXCEPT !.dialogs = @ \cup {"No phone fields"}]
       ELSE IF ~env.exists
       THEN gui' = [gui EXCEPT !.dialogs = @ \cup {"Input not found"}]
       ELSE IF gui.wpc = "none"
       THEN gui' = Touch([gui EXCEPT !.stop_event = 1, !.cancel_button = "normal",
                                     !.wpc = "begin"],
                         {"cancel_button"}, "main")
       ELSE gui' = Touch([gui EXCEPT !.stop_event = 2, !.cancel_button = "normal",
                                     !.wpc2 = "begin"],
                         {"cancel_button"}, "main")
    /\ UNCHANGED <<fmtVars, chVars, cli, streamVars>>

\* cancel_run, the command of the Cancel button: it sets the event the
\* variable stop_event holds now
CancelRun ==
    /\ gui.cancel_button = "normal"
    /\ IF gui.stop_event = 1
       THEN /\ stop' = TRUE
            /\ stopAt' = IF stop THEN stopAt ELSE [pc |-> pc, i |-> i]
            /\ gui' = Touch([gui EXCEPT !.cancel_button = "disabled"],
                            {"cancel_button"}, "main")
       ELSE IF gui.stop_event = 2
       THEN /\ gui' = Touch([gui EXCEPT !.cancel_button = "disabled", !.stop2 = TRUE],
                            {"cancel_button"}, "main")
            /\ UNCHANGED <<stop, stopAt>>
       ELSE UNCHANGED <<stop, stopAt, gui>>
    /\ UNCHANGED <<fmtVars, chVars, cli, env, src, cfg, pc, pos, i, total, written, loc,
                   out, handles, err, result, events>>

\* int(processed / total * 100) if total else 0: float arithmetic, equal to
\* the integer quotient for every total below 50
Percent(processed, tot) == IF tot = 0 THEN 0 ELSE (processed * 100) \div tot

\* the main loop runs the callback scheduled first: ui_update or on_done
RunAfterCallback ==
    /\ gui.after # <<>>
    /\ LET cb == Head(gui.after)
           g == [gui EXCEPT !.after = Tail(@)]
       IN IF cb.kind = "ui_update"
          THEN gui' = Touch(LogInsert([g EXCEPT !.progressbar = Percent(cb.processed, cb.total)],
                                      [kind |-> "Processed", processed |-> cb.processed,
                                       total |-> cb.total]),
                            {"progressbar", "log_widget"}, "main")
          ELSE gui' = Touch(LogInsert([g EXCEPT !.dialogs = @ \cup {"Done"}],
                                      [kind |-> "Finished", processed |-> cb.processed,
                                       total |-> cb.total]),
                            {"log_widget"}, "main")
    /\ UNCHANGED <<fmtVars, chVars, cli, streamVars>>

\* target, on the worker thread, up to the call of write_vcards_stream
TargetBegin ==
    /\ gui.wpc = "begin"
    /\ pc = "idle"
    /\ gui' = Touch([gui EXCEPT !.run_button = "disabled", !.progressbar = 0,
                                !.log_state = "normal", !.log = <<>>, !.wpc = "stream"],
                    {"run_button", "progressbar", "log_widget"}, "worker")
    /\ pc' = "count"
    /\ UNCHANGED <<fmtVars, chVars, cli, env, src, cfg, pos, i, total, written, loc, out,
                   stop, handles, err, result, events, stopAt>>

\* progress_cb, called by the pass on the worker thread: it schedules ui_update
ProgressCb ==
    /\ gui.wpc = "stream"
    /\ pc = "progress"
    /\ events' = Append(events, Event("progress", written))
    /\ gui' = [gui EXCEPT !.after = Append(@, [kind |-> "ui_update", processed |-> i,
                                               total |-> total])]
    /\ pc' = "next"
    /\ UNCHANGED <<fmtVars, chVars, cli, env, src, cfg, pos, i, total, written, loc, out,
                   stop, handles, err, result, stopAt>>

\* after the pass has returned: on_done is scheduled
TargetDone ==
    /\ gui.wpc = "stream"
    /\ pc = "returned"
    /\ gui' = [gui EXCEPT !.after = Append(@, [kind |-> "on_done", processed |-> result,
                                               total |-> total]),
                          !.wpc = "finally"]
    /\ UNCHANGED <<fmtVars, chVars, cli, streamVars>>

\* the except clause: the error goes into the log from the worker thread
TargetExcept ==
    /\ gui.wpc = "stream"
    /\ pc = "raised"
    /\ gui' = Touch(LogInsert([gui EXCEPT !.wpc = "finally"],
                              [kind |-> "Error", processed |-> 0, total |-> 0]),
                    {"log_widget"}, "worker")
    /\ UNCHANGED <<fmtVars, chVars, cli, streamVars>>

\* the finally clause
TargetFinally ==
    /\ gui.wpc = "finally"
    /\ gui' = Touch([gui EXCEPT !.log_state = "disabled", !.run_button = "normal",
                                !.wpc = "ended"],
                    {"log_widget", "run_button"}, "worker")
    /\ UNCHANGED <<fmtVars, chVars, cli, streamVars>>

\* target of the second thread, up to the call of write_vcards_stream
Target2Begin ==
    /\ gui.wpc2 = "begin"
    /\ gui' = Touch([gui EXCEPT !.run_button = "disabled", !.progressbar = 0,
                                !.log_state = "normal", !.log = <<>>, !.wpc2 = "stream"],
                    {"run_button", "progressbar", "log_widget"}, "worker")
    /\ UNCHANGED <<fmtVars, chVars, cli, streamVars>>

\* the second thread's pass, taken as one step: it returns some count and
\* on_done is scheduled, or it raises and the error goes into the log
Target2Pass ==
    /\ gui.wpc2 = "stream"
    /\ \/ \E n \in 0..Len(src.lines) :
             gui' = [gui EXCEPT !.after = Append(@, [kind |-> "on_done", processed |-> n,
                                                    total |-> Len(src.lines)]),
                               !.wpc2 = "finally"]
       \/ gui' = Touch(LogInsert([gui EXCEPT !.wpc2 = "finally"],
                                 [kind |-> "Error", processed |-> 0, total |-> 0]),
                       {"log_widget"}, "worker")
    /\ UNCHANGED <<fmtVars, chVars, cli, streamVars>>

\* the finally clause of the second thread
Target2Finally ==
    /\ gui.wpc2 = "finally"
    /\ gui' = Touch([gui EXCEPT !.log_state = "disabled", !.run_button = "normal",
                                !.wpc2 = "ended"],
                    {"log_widget", "run_button"}, "worker")
    /\ UNCHANGED <<fmtVars, chVars, cli, streamVars>>

----------------------------------------------------------------------------
(* The window applied to bounded files and selections *)

GuiSources == { <<>>, <<RowOne>>, <<RowEmpty, RowOne>>, <<RowBoth, RowNoDigit>> }

GuiCfgs ==
    [name_field : {NAME},
     phone_fields : {<<>>, <<PHONE>>, <<PHONE, ALT>>},
     phone_labels : {<<>>, <<HOME>>},
     prefix : {<<>>},
     postfix : {<<>>},
     progress : {TRUE},
     stop_event : {TRUE}]

GuiInit ==
    /\ gui = NoGui
    /\ \E l \in GuiSources : src = [headers |-> Headers, lines |-> l]
    /\ cfg \in GuiCfgs
    /\ env \in Envs
    /\ out \in {None, <<OldContent>>}
    /\ pc = "idle"
    /\ pos = 0 /\ i = 0 /\ total = 0 /\ written = 0
    /\ loc = NoLoc
    /\ stop = FALSE
    /\ handles = {}
    /\ err = None /\ result = None
    /\ events = <<>>
    /\ stopAt = NoStop
    /\ FmtIdle
    /\ ChIdle
    /\ cli = NoCli

GuiNext ==
    \/ InputEdited \/ OnRun \/ CancelRun \/ RunAfterCallback
    \/ TargetBegin \/ TargetDone \/ TargetExcept \/ TargetFinally
    \/ Target2Begin \/ Target2Pass \/ Target2Finally
    \/ CountOpen \/ CountRows \/ CountFails \/ OpenInput \/ OpenFiles
    \/ NextRow \/ ReadFails \/ CheckStop \/ BuildRow
    \/ WriteRecord \/ WriteFails \/ ProgressCb \/ Return

SpecGui == GuiInit /\ [][GuiNext]_vars

\* C18: no widget is ever changed by the worker thread: every change to the
\* Run button, the progress bar and the log widget is made on the main
\* thread, by the main loop or by a callback scheduled with root.after.
C18_WidgetsOnlyFromMainThread ==
    \A t \in gui.touched : t.by = "main"

\* a thread between the Run click that started it and the end of target
Running(where) == where \in {"begin", "stream", "finally"}

\* C24: at most one conversion runs at a time, and while one runs the event
\* the Cancel button sets is the event that conversion checks.
C24_OnePassAndCancelReachesIt ==
    /\ ~(Running(gui.wpc) /\ Running(gui.wpc2))
    /\ Running(gui.wpc) => gui.stop_event = 1
    /\ Running(gui.wpc2) => gui.stop_event = 2

\* C25: every scheduled callback (the progress updates and the closing
\* "Finished" message) runs while the log is writable, and the log is made
\* read-only only when no scheduled callback is left to run.  Stated for the
\* runs of the window in which Run started one conversion only.
C25_ScheduledUpdatesReachTheLog ==
    [][gui.wpc2 = "none" =>
          /\ (gui.after # <<>> /\ gui'.after = Tail(gui.after)) => gui.log_state = "normal"
          /\ (gui.log_state = "normal" /\ gui'.log_state = "disabled") => gui.after = <<>>]_vars

====
